---- MODULE Spec2Model ----
(***************************************************************************)
(* Model of conv2d_explained.ipynb: a notebook that builds OneLayerConv2d  *)
(* (one torch.nn.Conv2d), lists its parameters, counts them, and runs one  *)
(* forward pass on a random tensor.  Tensors are modelled by their shape   *)
(* and by a tag naming the random draw that filled them.                   *)
(***************************************************************************)
EXTENDS Integers, Sequences, FiniteSets, TLC

VARIABLES pc, namespace, conv_layer, params, x, output, stdout, err

vars == <<pc, namespace, conv_layer, params, x, output, stdout, err>>

(* ---------------- bounds ---------------- *)
MaxSeed == 4
MaxBatch == 2
MaxChan == 2
MaxSide == 7
MaxKernel == 3
MaxStride == 2
MaxPad == 1

(* ---------------- values the notebook fixes ---------------- *)
NotebookBatch == 128
NotebookSide == 28

Seeds == 1..MaxSeed

(* ---------------- tensors ---------------- *)
NoTensor == [shape |-> <<>>, data |-> <<>>]

RandTensor(shape, seed) == [shape |-> shape, data |-> <<seed>>]

_pair(v) == <<v, v>>

(* ---------------- torch.nn.Conv2d ---------------- *)
Conv2dInit_BiasFirst(in_channels, out_channels, kernel_size, stride, padding, bias, wseed, bseed) ==
  [type |-> "Conv2d",
   in_channels |-> in_channels,
   out_channels |-> out_channels,
   kernel_size |-> kernel_size,
   stride |-> stride,
   padding |-> padding,
   _parameters |->
     << RandTensor(<<out_channels>>, bseed),
        RandTensor(<<out_channels, in_channels, kernel_size[1], kernel_size[2]>>, wseed) >>,
   _modules |-> <<>>]

Conv2dInit(in_channels, out_channels, kernel_size, stride, padding, bias, wseed, bseed) ==
  [type |-> "Conv2d",
   in_channels |-> in_channels,
   out_channels |-> out_channels,
   kernel_size |-> kernel_size,
   stride |-> stride,
   padding |-> padding,
   _parameters |->
     IF bias
       THEN << RandTensor(<<out_channels, in_channels, kernel_size[1], kernel_size[2]>>, wseed),
               RandTensor(<<out_channels>>, bseed) >>
       ELSE << RandTensor(<<out_channels, in_channels, kernel_size[1], kernel_size[2]>>, wseed) >>,
   _modules |-> <<>>]

RECURSIVE Slide_NoExtent(_, _, _, _)
Slide_NoExtent(pos, limit, k, s) ==
  IF pos < limit THEN <<pos>> \o Slide_NoExtent(pos + s, limit, k, s) ELSE <<>>

(* The kernel slides across the zero-padded input: the offsets, in padded  *)
(* coordinates, at which the whole kernel overlaps the input.              *)
RECURSIVE Slide(_, _, _, _)
Slide(pos, limit, k, s) ==
  IF pos + k <= limit THEN <<pos>> \o Slide(pos + s, limit, k, s) ELSE <<>>

KernelPositions_PadOneSide(size, k, s, p) == Slide(0, size + p, k, s)

KernelPositions(size, k, s, p) == Slide(0, size + 2 * p, k, s)

(* The shapes the library refuses: wrong rank, wrong channel count, or no  *)
(* position at which the kernel fits.                                      *)
Conv2dRejects(layer, t) ==
  \/ Len(t.shape) # 4
  \/ t.shape[2] # layer.in_channels
  \/ KernelPositions(t.shape[3], layer.kernel_size[1], layer.stride[1], layer.padding[1]) = <<>>
  \/ KernelPositions(t.shape[4], layer.kernel_size[2], layer.stride[2], layer.padding[2]) = <<>>

Conv2dForward(layer, t) ==
  IF Conv2dRejects(layer, t)
    THEN [raised |-> TRUE, value |-> NoTensor]
    ELSE [raised |-> FALSE,
          value |->
            [shape |-> << t.shape[1],
                          layer.out_channels,
                          Len(KernelPositions(t.shape[3], layer.kernel_size[1],
                                              layer.stride[1], layer.padding[1])),
                          Len(KernelPositions(t.shape[4], layer.kernel_size[2],
                                              layer.stride[2], layer.padding[2])) >>,
             data |-> layer._parameters[1].data
                        \o (IF Len(layer._parameters) > 1
                              THEN layer._parameters[2].data ELSE <<0>>)
                        \o t.data]]

(* ---------------- OneLayerConv2d ---------------- *)
NoModule ==
  [type |-> "None", in_channels |-> 0, out_channels |-> 0,
   kernel_size |-> <<0, 0>>, stride |-> <<0, 0>>, padding |-> <<0, 0>>,
   _parameters |-> <<>>, _modules |-> <<>>]

OneLayerConv2dInit_Kernel3(wseed, bseed) ==
  [type |-> "OneLayerConv2d", in_channels |-> 0, out_channels |-> 0,
   kernel_size |-> <<0, 0>>, stride |-> <<0, 0>>, padding |-> <<0, 0>>,
   _parameters |-> <<>>,
   _modules |-> << Conv2dInit(1, 10, _pair(3), _pair(1), _pair(0), TRUE, wseed, bseed) >>]

OneLayerConv2dInit(wseed, bseed) ==
  [type |-> "OneLayerConv2d", in_channels |-> 0, out_channels |-> 0,
   kernel_size |-> <<0, 0>>, stride |-> <<0, 0>>, padding |-> <<0, 0>>,
   _parameters |-> <<>>,
   _modules |-> << Conv2dInit(1, 10, _pair(5), _pair(1), _pair(0), TRUE, wseed, bseed) >>]

OneLayerConv2dForward(self, t) == Conv2dForward(self._modules[1], t)

(* module(x): dispatch to the module's forward *)
ModuleCall(m, t) ==
  IF m.type = "OneLayerConv2d" THEN OneLayerConv2dForward(m, t) ELSE Conv2dForward(m, t)

(* Module.parameters(): the module's own parameters, then its children's *)
RECURSIVE ChildParameters(_)
ChildParameters(mods) ==
  IF mods = <<>> THEN <<>>
  ELSE Head(mods)._parameters \o ChildParameters(Head(mods)._modules)
         \o ChildParameters(Tail(mods))

ModuleParameters(m) == m._parameters \o ChildParameters(m._modules)

(* reduce(f, seq) with f = lambda x, y: x*y : a left fold without initial  *)
RECURSIVE FoldMul(_, _)
FoldMul(acc, seq) ==
  IF seq = <<>> THEN acc ELSE FoldMul(acc * Head(seq), Tail(seq))

reduce_DropHead(seq) == FoldMul(1, Tail(seq))

reduce(seq) == FoldMul(Head(seq), Tail(seq))

Line(label, value) == [label |-> label, value |-> value]

(* ---------------- the notebook's cells ---------------- *)
Builtins_Py3 == {"print", "list", "len", "super"}

Builtins == {"print", "list", "len", "reduce", "super"}

CodeCells == <<"cell0", "cell4", "cell6", "cell8", "cell10", "cell12", "cell14">>

Succ(c) ==
  IF \E i \in 1..(Len(CodeCells) - 1) : CodeCells[i] = c
    THEN CodeCells[(CHOOSE i \in 1..(Len(CodeCells) - 1) : CodeCells[i] = c) + 1]
    ELSE IF c = CodeCells[Len(CodeCells)] THEN "done" ELSE c

Uses(c) ==
  CASE c = "cell0" -> {}
    [] c = "cell4" -> {"nn", "super"}
    [] c = "cell6" -> {"OneLayerConv2d", "print"}
    [] c = "cell8" -> {"list", "conv_layer", "print", "len"}
    [] c = "cell10" -> {"print", "params", "reduce"}
    [] c = "cell12" -> {"print", "list", "conv_layer"}
    [] c = "cell14" -> {"Variable", "torch", "conv_layer", "print"}
    [] OTHER -> {}

Raise(e) ==
  /\ err' = e
  /\ pc' = "aborted"

NameError ==
  /\ Raise("NameError")
  /\ UNCHANGED <<namespace, conv_layer, params, x, output, stdout>>

(* every name the cell reads is bound, in the notebook's globals or builtins *)
Bound(c) == Uses(c) \subseteq namespace \cup Builtins

Init ==
  /\ pc = "cell0"
  /\ namespace = {}
  /\ conv_layer = NoModule
  /\ params = <<>>
  /\ x = NoTensor
  /\ output = NoTensor
  /\ stdout = <<>>
  /\ err = "none"

Cell0_Import ==
  /\ pc = "cell0"
  /\ IF Bound("cell0")
       THEN /\ namespace' = namespace \cup {"print_function", "torch", "nn", "Variable"}
            /\ pc' = Succ(pc)
            /\ UNCHANGED <<conv_layer, params, x, output, stdout, err>>
       ELSE NameError

Cell4_ClassDef ==
  /\ pc = "cell4"
  /\ IF Bound("cell4")
       THEN /\ namespace' = namespace \cup {"OneLayerConv2d"}
            /\ pc' = Succ(pc)
            /\ UNCHANGED <<conv_layer, params, x, output, stdout, err>>
       ELSE NameError

Cell6_Construct ==
  /\ pc = "cell6"
  /\ IF Bound("cell6")
       THEN /\ \E wseed \in Seeds, bseed \in Seeds :
                 conv_layer' = OneLayerConv2dInit(wseed, bseed)
            /\ namespace' = namespace \cup {"conv_layer"}
            /\ stdout' = Append(stdout,
                 Line("OneLayerConv2d (conv1): Conv2d",
                      << conv_layer'._modules[1].in_channels,
                         conv_layer'._modules[1].out_channels >>
                      \o conv_layer'._modules[1].kernel_size
                      \o conv_layer'._modules[1].stride))
            /\ pc' = Succ(pc)
            /\ UNCHANGED <<params, x, output, err>>
       ELSE NameError

Cell8_Params ==
  /\ pc = "cell8"
  /\ IF Bound("cell8")
       THEN /\ params' = ModuleParameters(conv_layer)
            /\ namespace' = namespace \cup {"params"}
            /\ stdout' = Append(stdout,
                 Line("-> parameters for weights and biases", <<Len(params')>>))
            /\ pc' = Succ(pc)
            /\ UNCHANGED <<conv_layer, x, output, err>>
       ELSE NameError

Cell10_Counts ==
  /\ pc = "cell10"
  /\ IF Bound("cell10")
       THEN /\ IF Len(params) = 0
                 THEN /\ Raise("IndexError")
                      /\ UNCHANGED stdout
                 ELSE IF Len(params) = 1
                   THEN /\ Raise("IndexError")
                        /\ stdout' = stdout \o
                             << Line("torch.Size", params[1].shape),
                                Line("Number of parameters (from kernels):",
                                     <<reduce(params[1].shape)>>) >>
                   ELSE /\ stdout' = stdout \o
                             << Line("torch.Size", params[1].shape),
                                Line("Number of parameters (from kernels):",
                                     <<reduce(params[1].shape)>>),
                                Line("Number of parameters (from biases):",
                                     <<params[2].shape[1]>>) >>
                        /\ pc' = Succ(pc)
                        /\ UNCHANGED err
            /\ UNCHANGED <<namespace, conv_layer, params, x, output>>
       ELSE NameError

Cell12_PrintKernels ==
  /\ pc = "cell12"
  /\ IF Bound("cell12")
       THEN /\ IF ModuleParameters(conv_layer) = <<>>
                 THEN /\ Raise("IndexError")
                      /\ UNCHANGED stdout
                 ELSE /\ stdout' = stdout \o
                           << Line("Tensor containing all kernel weights:",
                                   ModuleParameters(conv_layer)[1].shape),
                              Line("Parameter containing:",
                                   ModuleParameters(conv_layer)[1].data) >>
                      /\ pc' = Succ(pc)
                      /\ UNCHANGED err
            /\ UNCHANGED <<namespace, conv_layer, params, x, output>>
       ELSE NameError

ForwardAndPrint_Swallow(input) ==
  /\ output' = ModuleCall(conv_layer, input).value
  /\ namespace' = namespace \cup {"x", "output"}
  /\ stdout' = stdout \o
       << Line("Input:", input.shape), Line("After Conv2d:", output'.shape) >>
  /\ pc' = IF pc = "cell14" THEN Succ(pc) ELSE "returned"
  /\ UNCHANGED err

(* output = conv_layer(x); print x.shape; print output.shape *)
ForwardAndPrint(input) ==
  IF ModuleCall(conv_layer, input).raised
    THEN /\ Raise("RuntimeError")
         /\ UNCHANGED <<output, stdout>>
         /\ namespace' = namespace \cup {"x"}
    ELSE /\ output' = ModuleCall(conv_layer, input).value
         /\ namespace' = namespace \cup {"x", "output"}
         /\ stdout' = stdout \o
              << Line("Input:", input.shape), Line("After Conv2d:", output'.shape) >>
         /\ pc' = IF pc = "cell14" THEN Succ(pc) ELSE "returned"
         /\ UNCHANGED err

Cell14_Forward ==
  /\ pc = "cell14"
  /\ IF Bound("cell14")
       THEN /\ \E xseed \in Seeds :
                 x' = RandTensor(<<NotebookBatch, 1, NotebookSide, NotebookSide>>, xseed)
            /\ ForwardAndPrint(x')
            /\ UNCHANGED <<conv_layer, params>>
       ELSE NameError

Next ==
  \/ Cell0_Import
  \/ Cell4_ClassDef
  \/ Cell6_Construct
  \/ Cell8_Params
  \/ Cell10_Counts
  \/ Cell12_PrintKernels
  \/ Cell14_Forward

Spec == Init /\ [][Next]_vars

(* Run All executes the next cell as long as there is one *)
FairSpec == Spec /\ WF_vars(Next)

(* ---------------- forward() of OneLayerConv2d on any input ---------------- *)
BatchSizes == (1..MaxBatch) \cup {NotebookBatch}
Channels == 1..MaxChan
Sides == (1..MaxSide) \cup {NotebookSide}

AllNames ==
  {"print_function", "torch", "nn", "Variable", "OneLayerConv2d", "conv_layer", "params"}

InitFwd ==
  /\ pc = "forward"
  /\ namespace = AllNames
  /\ \E wseed \in Seeds, bseed \in Seeds :
       conv_layer = OneLayerConv2dInit(wseed, bseed)
  /\ params = ModuleParameters(conv_layer)
  /\ \E n \in BatchSizes, c \in Channels, h \in Sides, w \in Sides, xseed \in Seeds :
       x = RandTensor(<<n, c, h, w>>, xseed)
  /\ output = NoTensor
  /\ stdout = <<>>
  /\ err = "none"

Forward ==
  /\ pc = "forward"
  /\ ForwardAndPrint(x)
  /\ UNCHANGED <<conv_layer, params, x>>

NextFwd == Forward

SpecFwd == InitFwd /\ [][NextFwd]_vars

(* ---------------- nn.Conv2d with other kernels, strides, paddings ---------------- *)
InitConv ==
  /\ pc = "forward"
  /\ namespace = AllNames
  /\ \E kh \in 1..MaxKernel, kw \in 1..MaxKernel, s \in 1..MaxStride, p \in 0..MaxPad,
        seed \in Seeds :
       conv_layer = Conv2dInit(1, 1, <<kh, kw>>, _pair(s), _pair(p), TRUE, seed, seed)
  /\ params = ModuleParameters(conv_layer)
  /\ \E h \in 1..MaxSide, w \in 1..MaxSide :
       x = RandTensor(<<1, 1, h, w>>, 1)
  /\ output = NoTensor
  /\ stdout = <<>>
  /\ err = "none"

SpecConv == InitConv /\ [][NextFwd]_vars

(* ======================= properties ======================= *)

(* C1: forward() of OneLayerConv2d maps an input [N, 1, H, W] with H >= 5  *)
(* and W >= 5 to an output [N, 10, H-4, W-4] for every batch size N; the   *)
(* input [128, 1, 28, 28] gives [128, 10, 24, 24].                         *)
C1_ForwardShape ==
  /\ (pc # "forward" /\ x.shape[2] = 1 /\ x.shape[3] >= 5 /\ x.shape[4] >= 5)
       => /\ pc = "returned"
          /\ err = "none"
          /\ output.shape = <<x.shape[1], 10, x.shape[3] - 4, x.shape[4] - 4>>
  /\ (pc # "forward" /\ x.shape = <<128, 1, 28, 28>>)
       => output.shape = <<128, 10, 24, 24>>

C1_Witness ==
  /\ pc = "returned"
  /\ x.shape = <<128, 1, 28, 28>>
  /\ output.shape = <<128, 10, 24, 24>>

(* C2: once params = list(conv_layer.parameters()) has run, params holds   *)
(* exactly two tensors: first the kernels, shape [10, 1, 5, 5], then the   *)
(* biases, shape [10].                                                     *)
C2_TwoParameters ==
  "params" \in namespace
    => /\ Len(params) = 2
       /\ params[1].shape = <<10, 1, 5, 5>>
       /\ params[2].shape = <<10>>
       /\ stdout[2] = Line("-> parameters for weights and biases", <<2>>)

C2_Witness ==
  /\ pc = "cell10"
  /\ Len(params) = 2
  /\ params[1].shape = <<10, 1, 5, 5>>

(* C3: there are C_out * C_in = 10 kernels of 25 elements; the product of  *)
(* the kernel tensor's dimensions printed by cell 10 is 250, the bias      *)
(* count is 10, and together they are 260 parameters.                      *)
C3_ParameterCount ==
  pc \in {"cell12", "cell14", "done"}
    => /\ params[1].shape[1] * params[1].shape[2] = 10
       /\ params[1].shape[3] * params[1].shape[4] = 25
       /\ stdout[4] = Line("Number of parameters (from kernels):", <<250>>)
       /\ stdout[5] = Line("Number of parameters (from biases):", <<10>>)
       /\ stdout[4].value[1] + stdout[5].value[1] = 260

C3_Witness ==
  /\ pc = "cell12"
  /\ Len(stdout) = 5
  /\ stdout[4].value = <<250>>

C6_SamePadding ==
  (pc # "forward" /\ conv_layer.kernel_size = <<3, 3>> /\ conv_layer.stride = <<1, 1>>
     /\ conv_layer.padding = <<1, 1>>)
    => /\ pc = "returned"
       /\ output.shape[3] = x.shape[3]
       /\ output.shape[4] = x.shape[4]

C6_Witness ==
  /\ pc = "returned"
  /\ conv_layer.kernel_size = <<3, 3>>
  /\ conv_layer.stride = <<1, 1>>
  /\ conv_layer.padding = <<1, 1>>
  /\ x.shape = <<1, 1, 5, 5>>
  /\ output.shape = <<1, 1, 5, 5>>

(* C7: the cells run one after another in the order import, class,         *)
(* construct, parameters, counts, kernels, forward; each cell finds every  *)
(* name it reads already bound; no cell raises; the run reaches the end.   *)
RunOrder ==
  { <<"cell0", "cell4">>, <<"cell4", "cell6">>, <<"cell6", "cell8">>, <<"cell8", "cell10">>,
    <<"cell10", "cell12">>, <<"cell12", "cell14">>, <<"cell14", "done">> }

C7_SequentialRun ==
  /\ [](/\ err = "none"
        /\ Uses(pc) \subseteq namespace \cup {"print", "list", "len", "reduce", "super"}
        /\ ("params" \in namespace => "conv_layer" \in namespace)
        /\ ("output" \in namespace => {"x", "params", "conv_layer"} \subseteq namespace))
  /\ [][(<<pc, pc'>> \in RunOrder)]_vars
  /\ <>(pc = "done")

C7_Witness ==
  /\ pc = "done"
  /\ err = "none"
  /\ {"conv_layer", "params", "x", "output"} \subseteq namespace
  /\ Len(stdout) = 9

(* C8: a forward pass on an input whose channel count is not 1, or whose   *)
(* height or width is below 5, raises; nothing catches it, so the run ends *)
(* there with no output, and the layer's parameters are unchanged.         *)
Malformed(t) == t.shape[2] # 1 \/ t.shape[3] < 5 \/ t.shape[4] < 5

C8_MalformedInputRaises ==
  [][/\ pc # "aborted"
     /\ Malformed(x)
          => /\ err' = "RuntimeError"
             /\ pc' = "aborted"
             /\ output' = NoTensor
             /\ stdout' = stdout
             /\ conv_layer' = conv_layer
             /\ ModuleParameters(conv_layer') = params]_vars

C8_Witness ==
  /\ pc = "aborted"
  /\ err = "RuntimeError"
  /\ x.shape[2] = 1
  /\ x.shape[3] = 4
  /\ output = NoTensor
  /\ ModuleParameters(conv_layer) = params
====
